---- MODULE Spec2Model ----
(***************************************************************************)
(* Model of the client-side Runner of rsa-ai-generator                     *)
(* (src/src/static/runner.html): a job store keyed by integer, an          *)
(* admission loop bounded by maxRunningJobs, the success / failure         *)
(* callbacks registered with google.script.run, run() and stop().          *)
(*                                                                         *)
(* JavaScript is single threaded: every handler runs to completion, so     *)
(* each handler is one action.  The only asynchrony is the set of remote   *)
(* calls in flight, which settle in any order, each with success or with   *)
(* failure.                                                                *)
(***************************************************************************)
EXTENDS Integers, Sequences, FiniteSets, TLC

(* ---------------------------- bounds ----------------------------------- *)
MaxJobs == 4           \* job descriptors passed to run() over all its calls
MaxRuns == 2           \* number of run() calls made on the Runner
MaxOption == 1         \* largest maxRunningJobs option given to the constructor
MaxRow == 3            \* largest row number entered or reported by the sheet
MaxBatch == 2          \* largest batch size entered
MaxClicks == 1         \* clicks on Run followed by the page model
MaxElems == 2          \* elements of a JSON array in a model reply
MaxSheetRows == 3      \* adgroup rows of the keywords sheet
MaxQuota == 1          \* 429 answers within one top-level fetchJson call
MaxPages == 3          \* responses received by one execQuery call
MaxPageRows == 2       \* rows in the results of one response
MaxKeywords == 3       \* keyword lines of an adgroup
MaxKeywordLen == 2     \* characters of a keyword
MaxPlaceholders == 2   \* occurrences of {KEYWORDS} in a prompt template

(* ---------------------------- constants of the source ------------------ *)
RUNNER_STATUS_IDLE == "IDLE"
RUNNER_STATUS_RUNNING == "RUNNING"
JOB_STATUS_RUNNING == "RUNNING"
JOB_STATUS_PENDING == "PENDING"
JOB_STATUS_COMPLETE == "COMPLETE"
JOB_STATUS_ERROR == "ERROR"
JOB_STATUS_CALCELLED == "CANCELLED"
MAX_RUNNING_JOBS_DEFAULT == 2
BATCH_SIZE == 35

JobStatuses == {JOB_STATUS_RUNNING, JOB_STATUS_PENDING, JOB_STATUS_COMPLETE,
                JOB_STATUS_ERROR, JOB_STATUS_CALCELLED}
TerminalStatuses == {JOB_STATUS_COMPLETE, JOB_STATUS_ERROR, JOB_STATUS_CALCELLED}

\* `undefined` for a descriptor id (ids of the program are never negative)
NoId == 0 - 1
\* `null` for a callback slot
NoCallback == 0

Commands == {"generate_rsa_ui"}

(* ---------------------------- helpers ---------------------------------- *)
SetMin(S) == CHOOSE m \in S : \A x \in S : m <= x

RECURSIVE SortedSeq(_)
\* Object.keys / Object.values of an object with integer keys: ascending
SortedSeq(S) == IF S = {} THEN << >>
                ELSE LET m == SetMin(S) IN << m >> \o SortedSeq(S \ {m})

ObjectKeys(obj) == SortedSeq(DOMAIN obj)

ObjectValues(obj) ==
    LET ks == ObjectKeys(obj) IN [n \in 1..Len(ks) |-> obj[ks[n]]]

\* obj[k] = v of JavaScript: replaces the entry or adds the key
ObjectSet(obj, k, v) ==
    [x \in (DOMAIN obj) \cup {k} |-> IF x = k THEN v ELSE obj[x]]

CountStatus(jobs, s) == Cardinality({k \in DOMAIN jobs : jobs[k].status = s})

\* the fields a job object may carry, in the order they are added to it: by
\* run() (runner.html 147-148), by the caller (the payload, here the run and
\* the list position of the descriptor), by generate_rsa_ui (client.ts 58-66)
JobFields == << "id", "status", "run", "idx", "started", "error", "ended" >>

\* obj.f = v of JavaScript: sets the field, adding it when absent
SetField(obj, f, v) ==
    [x \in (DOMAIN obj) \cup {f} |-> IF x = f THEN v ELSE obj[x]]

RECURSIVE JSONpairs(_, _)
JSONpairs(job, fields) ==
    IF fields = << >> THEN << >>
    ELSE (IF Head(fields) \in DOMAIN job
          THEN << Head(fields), job[Head(fields)] >> ELSE << >>)
         \o JSONpairs(job, Tail(fields))

\* JSON.stringify(job): the text carries every field the job has
JSONstringify(job) == JSONpairs(job, JobFields)

\* JSON.parse(text): a fresh object with the fields the text carries
JSONparse(text) ==
    LET names == { text[2 * n - 1] : n \in 1..(Len(text) \div 2) }
    IN [f \in names |->
          text[2 * (CHOOSE n \in 1..(Len(text) \div 2) : text[2 * n - 1] = f)]]

(* ---------------------------- state ------------------------------------ *)
VARIABLES
    runnerJobs,          \* this.runnerJobs: key -> job object
    command,             \* this.command
    progressCallback,    \* this.progressCallback: the run whose callback it is
    completionCallback,  \* this.completionCallback: the run whose resolve it is
    runnerStatus,        \* this.runnerStatus
    maxRunningJobs,      \* this.maxRunningJobs
    inflight,            \* remote calls dispatched and not yet settled
    promise,             \* run -> state of the promise run() returned
    resolvedWith,        \* run -> the array its promise was resolved with
    completionCalls,     \* run -> number of times its resolve was invoked
    runCount,            \* number of run() calls made so far
    progressSeen,        \* progress callbacks invoked by the last handler
    jobsSubmitted,       \* descriptors passed to run() so far (bounds the model)
    page,                \* the page around the Runner: buttons, Runners, calls
    reply,               \* the last model reply and what normalizeReply made of it
    sheet,               \* the adgroup rows generate_rsa read and the cells it wrote
    http,                \* the top-level fetchJson call: its counters and outcome
    ads,                 \* the execQuery call: pages received and its outcome
    prompt,              \* the last _getPrompt call: its arguments and its result
    lastOp               \* the handler that ran last

vars == << runnerJobs, command, progressCallback, completionCallback,
           runnerStatus, maxRunningJobs, inflight, promise, resolvedWith,
           completionCalls, runCount, progressSeen, jobsSubmitted, page, reply,
           sheet, http, ads, prompt, lastOp >>

Runs == 1..MaxRuns

(* ---------------------------- inputs ----------------------------------- *)
\* the options object: << >> when maxRunningJobs is absent, << n >> otherwise.
\* onRun (runner.html 375-384) passes undefined or an integer >= 1; 0 is kept
\* to exercise the `||` of the constructor.
OptionValues == { << >> } \cup { << n >> : n \in 0..MaxOption }

\* how a caller numbers the descriptors of a list: not at all (run() assigns
\* the ids), from 0 as startExecution does (line 452), or from 1
FirstIds == {NoId, 0, 1}

\* the job lists passed to run(): a descriptor is the id the caller gave it
JobLists ==
    { [i \in 1..n |-> IF f = NoId THEN NoId ELSE f + i - 1] :
        n \in 0..MaxJobs, f \in FirstIds }

(* ---------------------------- Runner ------------------------------------ *)
\* mutant: the constructor takes the option as given, without the default
ConstructorNoDefault(options) ==
    IF options = << >> THEN 0 ELSE options[1]

\* constructor: options?.maxRunningJobs || Runner.MAX_RUNNING_JOBS_DEFAULT
ConstructorMaxRunningJobs(options) ==
    IF options = << >> \/ options[1] = 0 THEN MAX_RUNNING_JOBS_DEFAULT
    ELSE options[1]

\* what a progress callback invocation sees: the job and the store
ProgressEvent(jobs, job) ==
    [id |-> job.id, status |-> job.status, run |-> job.run, idx |-> job.idx,
     running |-> CountStatus(jobs, JOB_STATUS_RUNNING)]

\* mutant: the sweep also queues the CANCELLED jobs
PendingJobsWithCancelled(jobs) ==
    SelectSeq(ObjectKeys(jobs),
              LAMBDA k : jobs[k].status \in {JOB_STATUS_PENDING, JOB_STATUS_CALCELLED})

\* the keys of the PENDING jobs in Object.keys order (lines 47-56)
PendingJobs(jobs) ==
    SelectSeq(ObjectKeys(jobs), LAMBDA k : jobs[k].status = JOB_STATUS_PENDING)

\* mutant: the job is taken from the back of the queue (pop for shift)
NextPendingLast(pendingJobs) == pendingJobs[Len(pendingJobs)]

\* pendingJobs.shift() (line 59): the job taken next
NextPending(pendingJobs) == Head(pendingJobs)

\* mutant: the loop waits for each dispatch, admitting one job per sweep
MayAdmitOneAtATime(pendingJobs, runningCount, max) ==
    Len(pendingJobs) > 0 /\ runningCount < 1

\* mutant: the admission loop forgets the concurrency limit
MayAdmitNoLimit(pendingJobs, runningCount, max) ==
    Len(pendingJobs) > 0

\* the loop guard of line 58
MayAdmit(pendingJobs, runningCount, max) ==
    Len(pendingJobs) > 0 /\ runningCount < max

RECURSIVE runJobsLoop(_, _, _, _, _, _, _)
\* the while loop of runJobs (lines 58-70)
runJobsLoop(jobs, pendingJobs, runningCount, max, cmd, cb, acc) ==
    IF MayAdmit(pendingJobs, runningCount, max)
    THEN LET k     == NextPending(pendingJobs)
             jobs2 == [jobs EXCEPT ![k].status = JOB_STATUS_RUNNING]
             call  == [command |-> cmd, payload |-> JSONstringify(jobs2[k])]
             acc2  == [events |-> IF cb # NoCallback
                                  THEN Append(acc.events, ProgressEvent(jobs2, jobs2[k]))
                                  ELSE acc.events,
                       calls  |-> acc.calls \cup {call}]
         IN runJobsLoop(jobs2, SelectSeq(pendingJobs, LAMBDA x : x # k),
                        runningCount + 1, max, cmd, cb, acc2)
    ELSE [jobs |-> jobs, events |-> acc.events, calls |-> acc.calls]

\* mutant: the sweep counts every job that is not PENDING as RUNNING
runJobsNoRefill(jobs, max, cmd, cb, events) ==
    runJobsLoop(jobs, PendingJobs(jobs),
                Cardinality(DOMAIN jobs) - Len(PendingJobs(jobs)),
                max, cmd, cb, [events |-> events, calls |-> {}])

\* runJobs (lines 45-71)
runJobs(jobs, max, cmd, cb, events) ==
    runJobsLoop(jobs, PendingJobs(jobs), CountStatus(jobs, JOB_STATUS_RUNNING),
                max, cmd, cb, [events |-> events, calls |-> {}])

\* mutant: processStatus looks for PENDING jobs instead of RUNNING ones
NoJobPending(jobs) == \A k \in DOMAIN jobs : jobs[k].status # JOB_STATUS_PENDING

\* mutant: processStatus also waits for the CANCELLED jobs
NoJobUnfinished(jobs) ==
    \A k \in DOMAIN jobs :
        jobs[k].status \in {JOB_STATUS_COMPLETE, JOB_STATUS_ERROR}

\* mutant: an empty store is not taken as finished
NoJobRunningNonEmpty(jobs) ==
    /\ DOMAIN jobs # {}
    /\ \A k \in DOMAIN jobs : jobs[k].status # JOB_STATUS_RUNNING

\* the test of processStatus (lines 81-87): no job is RUNNING
NoJobRunning(jobs) == \A k \in DOMAIN jobs : jobs[k].status # JOB_STATUS_RUNNING

\* mutant: the handler reports the settled job after the sweep
processStatusThenNotify(jobs, max, cmd, cb, done, events) ==
    LET r == runJobs(jobs, max, cmd, cb, << >>)
    IN [jobs |-> r.jobs, events |-> r.events \o events, calls |-> r.calls,
        complete |-> NoJobRunning(r.jobs) /\ done # NoCallback]

\* processStatus (lines 77-92): runJobs, then the completion callback when no
\* job is RUNNING.  `complete` tells whether the callback was invoked.
processStatus(jobs, max, cmd, cb, done, events) ==
    LET r == runJobs(jobs, max, cmd, cb, events)
    IN [jobs |-> r.jobs, events |-> r.events, calls |-> r.calls,
        complete |-> NoJobRunning(r.jobs) /\ done # NoCallback]

\* the records run() stores (lines 145-150): entry i holds descriptor i, with
\* its own id when it has one and i otherwise, and status PENDING
StoreOfRun(jobs, r) ==
    [i \in 0..(Len(jobs) - 1) |->
        [id |-> IF jobs[i + 1] = NoId THEN i ELSE jobs[i + 1],
         status |-> JOB_STATUS_PENDING, run |-> r, idx |-> i]]

\* mutant: the guard of run() is inverted
RunnerBusyInverted(status) == status # RUNNER_STATUS_RUNNING

\* the guard of run() (line 138)
RunnerBusy(status) == status = RUNNER_STATUS_RUNNING

\* successHandler up to its call of processStatus (lines 101-106)
successStore(jobs, input) ==
    LET job == [JSONparse(input) EXCEPT !.status = JOB_STATUS_COMPLETE]
    IN [jobs |-> ObjectSet(jobs, job.id, job), job |-> job]

\* errorHandler up to its call of processStatus (lines 117-122)
errorStore(jobs, input) ==
    LET job == [JSONparse(input) EXCEPT !.status = JOB_STATUS_ERROR]
    IN [jobs |-> ObjectSet(jobs, job.id, job), job |-> job]

\* mutant: stop cancels the PENDING jobs only
stopStorePendingOnly(jobs) ==
    [k \in DOMAIN jobs |->
        IF jobs[k].status = JOB_STATUS_PENDING
        THEN [jobs[k] EXCEPT !.status = JOB_STATUS_CALCELLED]
        ELSE jobs[k]]

\* mutant: the loop of stop leaves after the first job it cancels
stopStoreFirstOnly(jobs) ==
    LET open == {k \in DOMAIN jobs : jobs[k].status = JOB_STATUS_PENDING
                                     \/ jobs[k].status = JOB_STATUS_RUNNING}
    IN [k \in DOMAIN jobs |->
          IF open # {} /\ k = SetMin(open)
          THEN [jobs[k] EXCEPT !.status = JOB_STATUS_CALCELLED]
          ELSE jobs[k]]

\* stop (lines 161-168)
stopStore(jobs) ==
    [k \in DOMAIN jobs |->
        IF jobs[k].status = JOB_STATUS_PENDING \/ jobs[k].status = JOB_STATUS_RUNNING
        THEN [jobs[k] EXCEPT !.status = JOB_STATUS_CALCELLED]
        ELSE jobs[k]]

\* what generate_rsa can throw into generate_rsa_ui (app.ts 496-501: Error
\* objects); JSON.stringify writes an Error as {}
ServerErrors == { "{}" }

\* generate_rsa_ui up to the call of generate_rsa (client.ts 57-58)
generate_rsa_ui_job(input) == SetField(JSONparse(input), "started", "date")

\* mutant: the server numbers the job again, from 1
generate_rsa_ui_renumbered(input) ==
    LET job == generate_rsa_ui_job(input)
    IN JSONstringify(SetField(SetField(job, "id", job.id + 1), "ended", "date"))

\* generate_rsa_ui on the server when generate_rsa returns (client.ts 55-70):
\* the finally block sets ended, then the job is returned as text
generate_rsa_ui(input) ==
    JSONstringify(SetField(generate_rsa_ui_job(input), "ended", "date"))

\* generate_rsa_ui when generate_rsa throws (client.ts 61-64): the job with
\* the error is made text and thrown before the finally block sets ended
generate_rsa_ui_throw(input, error) ==
    JSONstringify(SetField(generate_rsa_ui_job(input), "error", error))

\* the identifiers bound where the failure callback of line 67 is written:
\* its parameter e and the locals of runJobs in scope inside the while loop
ScopeAtFailureHandler == {"e", "job", "pendingJobs", "runningCount"}

\* (e) => this.errorHandler(i): evaluating the unbound i throws a
\* ReferenceError before errorHandler is entered
FailureCallbackThrows == "i" \notin ScopeAtFailureHandler

(* ---------------------------- actions ---------------------------------- *)
\* the effect of processStatus on the Runner and on the promises
Apply(ps, stillInFlight, done, op) ==
    /\ runnerJobs' = ps.jobs
    /\ inflight' = stillInFlight \cup ps.calls
    /\ progressSeen' = ps.events
    /\ lastOp' = op
    /\ IF ps.complete
       THEN /\ completionCalls' = [completionCalls EXCEPT ![done] = @ + 1]
            /\ promise' = [promise EXCEPT ![done] = "resolved"]
            /\ resolvedWith' = [resolvedWith EXCEPT ![done] =
                    IF promise[done] = "resolved" /\ op # "run"
                    THEN @ ELSE ObjectValues(ps.jobs)]
       ELSE /\ UNCHANGED << completionCalls, resolvedWith >>
            /\ promise' = IF op = "run"
                          THEN [promise EXCEPT ![done] = "pending"]
                          ELSE promise

\* no reply of the model has been taken yet
NoReply == [wrapper |-> "", array |-> << >>, text |-> << >>, out |-> << >>]

\* generate_rsa has not run yet
NoSheet == [rows |-> << >>, rowToProcess |-> 0, writes |-> << >>]

\* fetchJson has not been called yet
NoFetch ==
    [phase |-> "idle", retryNum |-> 0, requests |-> 0, gateway |-> 0,
     quota |-> 0, code |-> 0, slept |-> 0, error |-> ""]

\* execQuery has not been called yet
NoQuery ==
    [phase |-> "idle", pages |-> << >>, results |-> << >>, value |-> << >>,
     error |-> ""]

\* _getPrompt has not been called yet
NoPrompt ==
    [template |-> << >>, keywords |-> << >>, argLen |-> 0, out |-> << >>,
     iterations |-> 0]

\* the state of the server side, which the page and the Runner never touch
serverVars == << reply, sheet, http, ads, prompt >>

\* the page as loaded (runner.html 298-321): Run enabled, Stop disabled, no
\* Runner yet.  runners counts the Runners created, built records every
\* call of startExecution with the descriptors it built.
InitialPage ==
    [enabled |-> TRUE, runners |-> 0, clicks |-> 0, batchIn |-> << >>,
     alert |-> "", sheetCalls |-> {}, built |-> {}]

\* new Runner(options)
Init ==
    /\ page = InitialPage
    /\ reply = NoReply
    /\ sheet = NoSheet
    /\ http = NoFetch
    /\ ads = NoQuery
    /\ prompt = NoPrompt
    /\ runnerJobs = << >>
    /\ command = ""
    /\ progressCallback = NoCallback
    /\ completionCallback = NoCallback
    /\ runnerStatus = RUNNER_STATUS_IDLE
    /\ maxRunningJobs \in { ConstructorMaxRunningJobs(o) : o \in OptionValues }
    /\ inflight = {}
    /\ promise = [r \in Runs |-> "none"]
    /\ resolvedWith = [r \in Runs |-> << >>]
    /\ completionCalls = [r \in Runs |-> 0]
    /\ runCount = 0
    /\ jobsSubmitted = 0
    /\ progressSeen = << >>
    /\ lastOp = "new"

\* run(command, jobs, progressCallback) (lines 135-155)
run(cmd, jobs) ==
    /\ runCount < MaxRuns
    /\ jobsSubmitted + Len(jobs) <= MaxJobs
    /\ runCount' = runCount + 1
    /\ jobsSubmitted' = jobsSubmitted + Len(jobs)
    /\ LET r == runCount + 1 IN
       IF RunnerBusy(runnerStatus)
       THEN /\ promise' = [promise EXCEPT ![r] = "rejected"]
            /\ lastOp' = "run"
            /\ progressSeen' = << >>
            /\ UNCHANGED << runnerJobs, command, progressCallback,
                            completionCallback, inflight, resolvedWith,
                            completionCalls >>
       ELSE /\ completionCallback' = r
            /\ progressCallback' = r
            /\ command' = cmd
            /\ Apply(processStatus(StoreOfRun(jobs, r), maxRunningJobs, cmd,
                                   r, r, << >>),
                     inflight, r, "run")
    /\ UNCHANGED << runnerStatus, maxRunningJobs >>

\* a remote call succeeds: the success callback of line 66
OnSuccess(call) ==
    /\ call \in inflight
    /\ LET s == successStore(runnerJobs, generate_rsa_ui(call.payload))
           ev == IF progressCallback # NoCallback
                 THEN << ProgressEvent(s.jobs, s.job) >> ELSE << >>
       IN Apply(processStatus(s.jobs, maxRunningJobs, command,
                              progressCallback, completionCallback, ev),
                inflight \ {call}, completionCallback, "success")
    /\ UNCHANGED << command, progressCallback, completionCallback,
                    runnerStatus, maxRunningJobs, runCount, jobsSubmitted >>

\* a remote call fails: the failure callback of line 67
OnFailure(call) ==
    /\ call \in inflight
    /\ IF FailureCallbackThrows
       THEN /\ inflight' = inflight \ {call}
            /\ progressSeen' = << >>
            /\ lastOp' = "failure"
            /\ UNCHANGED << runnerJobs, promise, resolvedWith, completionCalls >>
       ELSE LET s == errorStore(runnerJobs,
                                generate_rsa_ui_throw(call.payload, "{}"))
                ev == IF progressCallback # NoCallback
                      THEN << ProgressEvent(s.jobs, s.job) >> ELSE << >>
            IN Apply(processStatus(s.jobs, maxRunningJobs, command,
                                   progressCallback, completionCallback, ev),
                     inflight \ {call}, completionCallback, "failure")
    /\ UNCHANGED << command, progressCallback, completionCallback,
                    runnerStatus, maxRunningJobs, runCount, jobsSubmitted >>

\* stop() (lines 161-168)
stop ==
    /\ runnerJobs' = stopStore(runnerJobs)
    /\ progressSeen' = << >>
    /\ lastOp' = "stop"
    /\ UNCHANGED << command, progressCallback, completionCallback,
                    runnerStatus, maxRunningJobs, inflight, promise,
                    resolvedWith, completionCalls, runCount, jobsSubmitted >>

Next ==
    \/ \E cmd \in Commands, jobs \in JobLists : run(cmd, jobs) /\ UNCHANGED << page, serverVars >>
    \/ \E call \in inflight : OnSuccess(call) /\ UNCHANGED << page, serverVars >>
    \/ \E call \in inflight : OnFailure(call) /\ UNCHANGED << page, serverVars >>
    \/ stop /\ UNCHANGED << page, serverVars >>

Spec == Init /\ [][Next]_vars

(* ---------------------------- the page ---------------------------------- *)
\* The page of runner.html (lines 317-507) around the Runner.  The text of an
\* input field is << >> when the field is empty and << n >> when it holds the
\* number n.  The page is followed through the Runners it
\* creates.

RowTexts == { << >> } \cup { << n >> : n \in 1..MaxRow }
BatchTexts == { << >> } \cup { << n >> : n \in (0 - 1)..MaxBatch }
MaxJobsTexts == { << >> } \cup { << n >> : n \in 0..MaxOption }

\* the fields of the Runner
runnerVars == << runnerJobs, command, progressCallback, completionCallback,
                 runnerStatus, maxRunningJobs, inflight, promise, resolvedWith,
                 completionCalls, runCount, progressSeen, jobsSubmitted, lastOp >>

\* parseInt(document.getElementById('batchSize').value || BATCH_SIZE, 10)
ParseBatchSize(text) == IF text = << >> THEN BATCH_SIZE ELSE text[1]

\* mutant: only the test !batchSize is made
BatchSizeRejectedZeroOnly(batchSize) == batchSize = 0

\* the test of line 370: !batchSize || batchSize < 1
BatchSizeRejected(batchSize) == batchSize = 0 \/ batchSize < 1

\* the test of lines 376-381 on the max running jobs field
MaxJobsRejected(text) == text # << >> /\ text[1] < 1

\* Math.ceil(a / b) for integers a and b # 0
CeilDiv(a, b) ==
    LET n == IF b > 0 THEN a ELSE 0 - a
        d == IF b > 0 THEN b ELSE 0 - b
    IN IF n > 0 THEN (n + d - 1) \div d ELSE 0 - ((0 - n) \div d)

\* mutant: the batches are counted with Math.floor
BatchCountFloor(rowStart, rowEnd, batchSize) ==
    (rowEnd - rowStart + 1) \div batchSize

\* batchCount (line 446)
BatchCount(rowStart, rowEnd, batchSize) ==
    CeilDiv(rowEnd - rowStart + 1, batchSize)

\* mutant: the descriptors are numbered from 1
DescriptorIdFromOne(i) == i + 1

\* id of descriptor i (line 452)
DescriptorId(i) == i

\* startRow of descriptor i (line 453)
DescriptorStartRow(rowStart, i, batchSize) == rowStart + i * batchSize

\* endRow of descriptor i (line 454)
DescriptorEndRow(rowStart, rowEnd, i, batchSize) ==
    LET last == rowStart + i * batchSize + batchSize - 1
    IN IF rowEnd < last THEN rowEnd ELSE last

\* the jobs built by startExecution (lines 446-458)
PartitionJobs(rowStart, rowEnd, batchSize) ==
    [n \in 1..BatchCount(rowStart, rowEnd, batchSize) |->
        [id |-> DescriptorId(n - 1),
         startRow |-> DescriptorStartRow(rowStart, n - 1, batchSize),
         endRow |-> DescriptorEndRow(rowStart, rowEnd, n - 1, batchSize)]]

\* startExecution (lines 443-469): the descriptors, a new Runner, run(), and
\* onExecutionCompleted (lines 471-474) when the promise resolves at once.
\* A Runner is replaced only once every call it issued has settled, and the
\* page builds at most MaxJobs descriptors in all.
startExecution(p, rowStart, rowEnd, batchSize, maxJobs) ==
    LET jobs == PartitionJobs(rowStart, rowEnd, batchSize)
        ids  == [n \in 1..Len(jobs) |-> jobs[n].id]
        max  == ConstructorMaxRunningJobs(maxJobs)
        ps   == processStatus(StoreOfRun(ids, 1), max, "generate_rsa_ui",
                              1, 1, << >>)
    IN /\ inflight = {}
       /\ jobsSubmitted + Len(jobs) <= MaxJobs
       /\ maxRunningJobs' = max
       /\ runnerStatus' = RUNNER_STATUS_IDLE
       /\ completionCallback' = 1
       /\ progressCallback' = 1
       /\ command' = "generate_rsa_ui"
       /\ runCount' = 1
       /\ jobsSubmitted' = jobsSubmitted + Len(jobs)
       /\ runnerJobs' = ps.jobs
       /\ inflight' = ps.calls
       /\ progressSeen' = ps.events
       /\ lastOp' = "run"
       /\ completionCalls' = [r \in Runs |->
                                IF r = 1 /\ ps.complete THEN 1 ELSE 0]
       /\ promise' = [r \in Runs |->
                        IF r # 1 THEN "none"
                        ELSE IF ps.complete THEN "resolved" ELSE "pending"]
       /\ resolvedWith' = [r \in Runs |->
                             IF r = 1 /\ ps.complete
                             THEN ObjectValues(ps.jobs) ELSE << >>]
       /\ page' = [p EXCEPT !.runners = @ + 1,
                            !.built = @ \cup
                                {[args |-> << rowStart, rowEnd, batchSize >>,
                                  jobs |-> jobs]},
                            !.enabled = ps.complete]

\* onRun (lines 364-404)
onRun(rowStart, rowEnd, batchText, maxJobsText) ==
    /\ page.enabled
    /\ page.clicks < MaxClicks
    /\ LET batchSize == ParseBatchSize(batchText)
           p == [page EXCEPT !.enabled = FALSE, !.clicks = @ + 1,
                             !.batchIn = batchText, !.alert = ""]
       IN IF BatchSizeRejected(batchSize)
          THEN /\ page' = [p EXCEPT !.alert = "Batch size should > 1"]
               /\ UNCHANGED runnerVars
          ELSE IF MaxJobsRejected(maxJobsText)
          THEN /\ page' = [p EXCEPT !.alert =
                              "Max running jobs must equal to or greater than 1"]
               /\ UNCHANGED runnerVars
          ELSE IF rowStart = << >> \/ rowEnd = << >>
          THEN /\ page' = [p EXCEPT !.sheetCalls = @ \cup
                              {[click |-> p.clicks, batchSize |-> batchSize,
                                maxJobs |-> maxJobsText]}]
               /\ UNCHANGED runnerVars
          ELSE startExecution(p, rowStart[1], rowEnd[1], batchSize, maxJobsText)

\* get_sheet_state_ui succeeds (lines 389-398): lastRow is the sheet's last row
OnSheetState(call, lastRow) ==
    /\ call \in page.sheetCalls
    /\ LET p == [page EXCEPT !.sheetCalls = @ \ {call}]
       IN IF lastRow < 2
          THEN /\ page' = p
               /\ UNCHANGED runnerVars
          ELSE startExecution(p, 2, lastRow, call.batchSize, call.maxJobs)

\* get_sheet_state_ui fails: onError (lines 351-354)
OnSheetStateFailure(call) ==
    /\ call \in page.sheetCalls
    /\ page' = [page EXCEPT !.sheetCalls = @ \ {call}, !.enabled = TRUE]
    /\ UNCHANGED runnerVars

\* onStop (lines 356-362); the Stop button is enabled while Run is disabled
onStop ==
    /\ ~ page.enabled
    /\ IF page.runners = 0
       THEN /\ page' = [page EXCEPT !.enabled = TRUE]
            /\ UNCHANGED runnerVars
       ELSE /\ stop
            /\ UNCHANGED page

\* onExecutionCompleted (lines 471-474), run when the promise of line 464
\* becomes resolved
AfterSettlement ==
    page' = [page EXCEPT !.enabled =
                IF promise[1] # "resolved" /\ promise'[1] = "resolved"
                THEN TRUE ELSE @]

PageInit ==
    /\ page = InitialPage
    /\ reply = NoReply
    /\ sheet = NoSheet
    /\ http = NoFetch
    /\ ads = NoQuery
    /\ prompt = NoPrompt
    /\ runnerJobs = << >>
    /\ command = ""
    /\ progressCallback = NoCallback
    /\ completionCallback = NoCallback
    /\ runnerStatus = RUNNER_STATUS_IDLE
    /\ maxRunningJobs = MAX_RUNNING_JOBS_DEFAULT
    /\ inflight = {}
    /\ promise = [r \in Runs |-> "none"]
    /\ resolvedWith = [r \in Runs |-> << >>]
    /\ completionCalls = [r \in Runs |-> 0]
    /\ runCount = 0
    /\ jobsSubmitted = 0
    /\ progressSeen = << >>
    /\ lastOp = "new"

PageNext ==
    \/ \E rowStart \in RowTexts, rowEnd \in RowTexts, batchText \in BatchTexts,
          maxJobsText \in MaxJobsTexts :
            onRun(rowStart, rowEnd, batchText, maxJobsText) /\ UNCHANGED serverVars
    \/ \E call \in page.sheetCalls, lastRow \in 0..MaxRow :
            OnSheetState(call, lastRow) /\ UNCHANGED serverVars
    \/ \E call \in page.sheetCalls : OnSheetStateFailure(call) /\ UNCHANGED serverVars
    \/ onStop /\ UNCHANGED serverVars
    \/ \E call \in inflight : OnSuccess(call) /\ AfterSettlement /\ UNCHANGED serverVars
    \/ \E call \in inflight : OnFailure(call) /\ AfterSettlement /\ UNCHANGED serverVars

PageSpec == PageInit /\ [][PageNext]_vars

(* ---------------------------- Predictor --------------------------------- *)
\* Predictor.normalizeReply (app.ts 834-863).  A text is a sequence of
\* tokens: "fence" for the fence ```, the words of WordTokens, blank, newline, the
\* JSON punctuation and JSON string literals.

Labels == {"json", "JSON"}
WordTokens == Labels \cup {"h1", "h2", "a", "b"}
Whitespace == {" ", "\n"}
Literals == {"\"h1\"", "\"h2\"", "\"\"", "\"a\\nb\""}

\* the string a JSON string literal stands for
Content(literal) ==
    CASE literal = "\"h1\""    -> << "h1" >>
      [] literal = "\"h2\""    -> << "h2" >>
      [] literal = "\"\""      -> << >>
      [] literal = "\"a\\nb\"" -> << "a", "\n", "b" >>

\* the token where /```\w*(json|JSON)/ ends when it starts at the fence s[i]:
\* \w* is greedy, so the match runs to the last label of the word run; 0 when
\* the fence is not followed by such a run
FenceLabelEnd(s, i) ==
    LET ends == { j \in (i + 1)..Len(s) :
                    /\ \A m \in (i + 1)..j : s[m] \in WordTokens
                    /\ s[j] \in Labels }
    IN IF ends = {} THEN 0 ELSE CHOOSE j \in ends : \A m \in ends : m <= j

\* reply.replace(/```\w*(json|JSON)/, ''): the first match is removed
ReplaceLabelledFence(s) ==
    LET starts == { i \in 1..Len(s) : s[i] = "fence" /\ FenceLabelEnd(s, i) # 0 }
    IN IF starts = {} THEN s
       ELSE LET i == SetMin(starts)
            IN SubSeq(s, 1, i - 1) \o SubSeq(s, FenceLabelEnd(s, i) + 1, Len(s))

\* .replaceAll(/```/g, '')
RemoveFences(s) == SelectSeq(s, LAMBDA t : t # "fence")

\* JSON.parse(reply) followed by json_reply.join: ok when the text is an
\* array of string literals (any other text, or a value without join, throws
\* into the catch block)
JSONparseArray(s) ==
    LET t     == SelectSeq(s, LAMBDA x : x \notin Whitespace)
        inner == SubSeq(t, 2, Len(t) - 1)
        ok    == /\ Len(t) >= 2
                 /\ t[1] = "["
                 /\ t[Len(t)] = "]"
                 /\ \/ inner = << >>
                    \/ /\ Len(inner) % 2 = 1
                       /\ \A n \in 1..Len(inner) :
                             IF n % 2 = 1 THEN inner[n] \in Literals
                             ELSE inner[n] = ","
    IN [ok |-> ok,
        elems |-> IF ok
                  THEN [n \in 1..((Len(inner) + 1) \div 2) |-> Content(inner[2 * n - 1])]
                  ELSE << >>]

RECURSIVE Join(_, _)
\* Array.prototype.join
Join(parts, sep) ==
    IF parts = << >> THEN << >>
    ELSE IF Len(parts) = 1 THEN parts[1]
    ELSE parts[1] \o << sep >> \o Join(Tail(parts), sep)

RECURSIVE Split(_, _)
\* String.prototype.split
Split(s, sep) ==
    LET at == { i \in 1..Len(s) : s[i] = sep }
    IN IF at = {} THEN << s >>
       ELSE << SubSeq(s, 1, SetMin(at) - 1) >>
            \o Split(SubSeq(s, SetMin(at) + 1, Len(s)), sep)

RECURSIVE StripLine(_)
\* the line.replace of line 852: of its alternatives only ^\s+ can match a
\* line of these tokens (the others need a digit, *, - or a bullet)
StripLine(line) ==
    IF line # << >> /\ Head(line) = " " THEN StripLine(Tail(line)) ELSE line

RECURSIVE CollapseBlanks(_)
\* .replaceAll('  ', ' ')
CollapseBlanks(s) ==
    IF Len(s) < 2 THEN s
    ELSE IF s[1] = " " /\ s[2] = " "
         THEN << " " >> \o CollapseBlanks(SubSeq(s, 3, Len(s)))
         ELSE << s[1] >> \o CollapseBlanks(Tail(s))

RECURSIVE Trim(_)
\* .trim()
Trim(s) ==
    IF s = << >> THEN s
    ELSE IF Head(s) \in Whitespace THEN Trim(Tail(s))
    ELSE IF s[Len(s)] \in Whitespace THEN Trim(SubSeq(s, 1, Len(s) - 1))
    ELSE s

\* normalizeReply (app.ts 834-863)
normalizeReply(text) ==
    LET cleaned   == RemoveFences(ReplaceLabelledFence(text))
        parsed    == JSONparseArray(cleaned)
        headlines == IF parsed.ok THEN Join(parsed.elems, "\n") ELSE << >>
        lines     == Split(cleaned, "\n")
    IN IF headlines # << >> THEN headlines
       ELSE Trim(CollapseBlanks(
                Join([n \in 1..Len(lines) |-> StripLine(lines[n])], "\n")))

\* reply ? reply.split('\n') : [] of getHeadlines / getDescriptions
\* (app.ts 887, 950): the lines the callers take from the normalized reply
ReplyLines(normalized) ==
    IF normalized = << >> THEN << >> ELSE Split(normalized, "\n")

\* the replies of the model: a JSON array of at most MaxElems string
\* literals, bare or inside a fence written in one of these ways
Wrappers == {"bare", "fence json", "fence JSON", "fence blank JSON", "fence only"}

Arrays == UNION { [1..n -> Literals] : n \in 0..MaxElems }

\* the text of the array, written as the model writes it: ["h1", "h2"]
ArrayText(array) ==
    << "[" >> \o Join([n \in 1..Len(array) |->
                          IF n = 1 THEN << array[n] >> ELSE << " ", array[n] >>],
                       ",")
              \o << "]" >>

\* the text of a reply
ReplyText(wrapper, array) ==
    LET opening == CASE wrapper = "fence json"  -> << "fence", "json", "\n" >>
                     [] wrapper = "fence JSON"  -> << "fence", "JSON", "\n" >>
                     [] wrapper = "fence blank JSON" -> << "fence", " ", "JSON", "\n" >>
                     [] wrapper = "fence only" -> << "fence", "\n" >>
                     [] wrapper = "bare"     -> << >>
    IN IF wrapper = "bare" THEN ArrayText(array)
       ELSE opening \o ArrayText(array) \o << "\n", "fence", "\n" >>

\* this.api.predict returns a reply and normalizeReply is applied to it
\* (app.ts 877-878)
predict(wrapper, array) ==
    /\ reply' = [wrapper |-> wrapper, array |-> array,
                 text |-> ReplyText(wrapper, array),
                 out |-> normalizeReply(ReplyText(wrapper, array))]
    /\ UNCHANGED << runnerVars, page, sheet, http, ads, prompt >>

PredictorInit == PageInit

PredictorNext ==
    \E wrapper \in Wrappers, array \in Arrays : predict(wrapper, array)

PredictorSpec == PredictorInit /\ [][PredictorNext]_vars

(* ---------------------------- generate_rsa ------------------------------ *)
\* app.ts generate_rsa: the adgroups of the keywords sheet, one per row from
\* row 2 on.  An adgroup is marked ignore, has no keywords, gets no headline
\* from the model, or gets headlines and descriptions.
RowKinds == {"ok", "ignore", "no keywords", "no headlines"}

SheetRows == UNION { [1..n -> RowKinds] : n \in 1..MaxSheetRows }

\* let rowNo = rowToProcess || 2 (0 stands for an omitted rowToProcess)
FirstRow(rowToProcess) == IF rowToProcess = 0 THEN 2 ELSE rowToProcess

\* rowNums = rowToProcess ? 1 : sheet.getLastRow() - 1
RowNums(rowToProcess, lastRow) == IF rowToProcess = 0 THEN lastRow - 1 ELSE 1

\* sheet.getRange(rowNo, 1, rowNums, lastCol - 2).getValues(): the adgroups
\* read, each with the sheet row it was read from
Values(rows, rowToProcess) ==
    [n \in 1..RowNums(rowToProcess, Len(rows) + 1) |->
        [row |-> FirstRow(rowToProcess) + n - 1,
         kind |-> rows[FirstRow(rowToProcess) + n - 2]]]

\* if (adGroup.ignore) continue; if (!adGroup.keywords) continue;
Skipped(adGroup) == adGroup.kind \in {"ignore", "no keywords"}

\* the setValue calls for one adgroup (lines 567-570): the headlines cell
\* always, the descriptions cell when the headlines text is not empty; each
\* written text is the one generated for adgroup `of`
CellWrites(rowNo, adGroup) ==
    << [row |-> rowNo, col |-> "headlines", of |-> adGroup.row,
        empty |-> adGroup.kind = "no headlines"] >>
    \o IF adGroup.kind = "no headlines" THEN << >>
       ELSE << [row |-> rowNo, col |-> "descriptions", of |-> adGroup.row,
                empty |-> FALSE] >>

\* the loop over values (lines 504-582): both continue statements leave the
\* loop body before rowNo += 1
RECURSIVE ProcessRows(_, _, _)
ProcessRows(values, rowNo, writes) ==
    IF values = << >> THEN writes
    ELSE IF Skipped(Head(values))
         THEN ProcessRows(Tail(values), rowNo, writes)
         ELSE ProcessRows(Tail(values), rowNo + 1,
                          writes \o CellWrites(rowNo, Head(values)))

generate_rsa(rows, rowToProcess) ==
    /\ sheet' = [rows |-> rows, rowToProcess |-> rowToProcess,
                 writes |-> ProcessRows(Values(rows, rowToProcess),
                                        FirstRow(rowToProcess), << >>)]
    /\ UNCHANGED << runnerVars, page, reply, http, ads, prompt >>

SheetInit == PageInit

SheetNext ==
    \E rows \in SheetRows, rowToProcess \in {0} \cup (2..(MaxSheetRows + 1)) :
        /\ rowToProcess <= Len(rows) + 1
        /\ generate_rsa(rows, rowToProcess)

SheetSpec == SheetInit /\ [][SheetNext]_vars

(* ---------------------------- fetchJson --------------------------------- *)
\* interop.ts fetchJson: one top-level call and the requests it issues.  A
\* recursive call is the next request of the same top-level call.
maxRetryCount == 100
retryDelay == 100
quotaLimitDelay == 30000

\* the response codes the server answers with
Codes == {200, 403, 429, 502, 503, 504}

\* if (code === 502 || code === 504 || code === 504)
GatewayError(code) == code = 502 \/ code = 504 \/ code = 504

\* if (retryNum >= Config.network.maxRetryCount) throw
RetryExhaustedLate(retryNum) == retryNum > maxRetryCount

RetryExhausted(retryNum) == retryNum >= maxRetryCount

\* return fetchJson(url, params): the call made after a 429 passes no
\* retryNum, and if (!retryNum) retryNum = 0 starts the callee at 0
RetryNumAfterQuota(retryNum) == 0

\* the body of fetchJson from the response on (lines 88-131): h is the
\* call with the request already counted
HandleResponse(h, code) ==
    IF code = 429
    THEN [h EXCEPT !.quota = @ + 1, !.slept = quotaLimitDelay,
                   !.retryNum = RetryNumAfterQuota(h.retryNum)]
    ELSE IF code = 403
    THEN [h EXCEPT !.phase = "thrown", !.error = "Permission denined"]
    ELSE IF GatewayError(code)
    THEN IF RetryExhausted(h.retryNum + 1)
         THEN [h EXCEPT !.gateway = @ + 1, !.slept = retryDelay,
                        !.retryNum = @ + 1, !.phase = "thrown",
                        !.error = "Max retry attempt count exceeded"]
         ELSE [h EXCEPT !.gateway = @ + 1, !.slept = retryDelay,
                        !.retryNum = @ + 1]
    ELSE IF code # 200
    THEN [h EXCEPT !.phase = "thrown", !.error = "API call has failed"]
    ELSE [h EXCEPT !.phase = "returned"]

\* a caller calls fetchJson(url, params): retryNum is omitted
fetchJson ==
    /\ http.phase # "calling"
    /\ http' = [NoFetch EXCEPT !.phase = "calling"]
    /\ UNCHANGED << runnerVars, page, reply, sheet, ads, prompt >>

\* UrlFetchApp.fetch(url, request) answers with a code and the rest of the
\* body runs; at most MaxQuota answers of one call are 429
Response(code) ==
    /\ http.phase = "calling"
    /\ code = 429 => http.quota < MaxQuota
    /\ http' = HandleResponse([http EXCEPT !.requests = @ + 1, !.code = code,
                                           !.slept = 0], code)
    /\ UNCHANGED << runnerVars, page, reply, sheet, ads, prompt >>

FetchInit == PageInit

FetchNext ==
    \/ fetchJson
    \/ \E code \in Codes : Response(code)

FetchSpec == FetchInit /\ [][FetchNext]_vars

(* ---------------------------- execQuery --------------------------------- *)
\* google-ads.ts GoogleAdsClient.execQuery: the pages of one search.  A
\* response is null, an object, or an array whose first element is the
\* object; the object may carry error, results and nextPageToken.  results
\* is << >> when the field is absent and << rows >> when it is present; the
\* rows of page p are << p, 1 >>, << p, 2 >>, ...
PageRows(p, size) == [k \in 1..size |-> << p, k >>]

NoData == [error |-> FALSE, results |-> << >>, token |-> FALSE]

ApiResponses(p) ==
    { [form |-> "null", body |-> NoData] }
    \cup { [form |-> f, body |-> [error |-> e, results |-> r, token |-> t]] :
             f \in {"object", "array"}, e \in BOOLEAN, t \in BOOLEAN,
             r \in { << >> } \cup { << PageRows(p, size) >> : size \in 0..MaxPageRows } }

\* const data = resJson && resJson.length ? resJson[0] : resJson
Data(resJson) == IF resJson.form = "null" THEN NoData ELSE resJson.body

\* if (data?.results) { if (!results) results = data.results;
\*                      else results = results.concat(data.results); }
ConcatResultsReversed(results, data) ==
    IF data.results = << >> THEN results
    ELSE IF results = << >> THEN data.results
    ELSE << data.results[1] \o results[1] >>

ConcatResults(results, data) ==
    IF data.results = << >> THEN results
    ELSE IF results = << >> THEN data.results
    ELSE << results[1] \o data.results[1] >>

\* return results || []
ReturnValue(results) == IF results = << >> THEN << >> ELSE results[1]

\* one iteration of the do-loop (lines 132-154) on the response resJson
LoopBody(q, resJson) ==
    LET data == Data(resJson)
        seen == [q EXCEPT !.pages = Append(@, resJson)]
    IN IF data.error
       THEN [seen EXCEPT !.phase = "thrown", !.error = "data.error.message"]
       ELSE IF data.token
       THEN [seen EXCEPT !.results = ConcatResults(q.results, data)]
       ELSE [seen EXCEPT !.results = ConcatResults(q.results, data),
                         !.phase = "returned",
                         !.value = ReturnValue(ConcatResults(q.results, data))]

\* execQuery(query, customerId) is called: let results; (line 131)
execQuery ==
    /\ ads.phase # "paging"
    /\ ads' = [NoQuery EXCEPT !.phase = "paging"]
    /\ UNCHANGED << runnerVars, page, reply, sheet, http, prompt >>

\* this.sendApiRequest(url, request, customerId) answers and the loop body
\* runs on the answer
ApiResponse(resJson) ==
    /\ ads.phase = "paging"
    /\ Len(ads.pages) < MaxPages
    /\ ads' = LoopBody(ads, resJson)
    /\ UNCHANGED << runnerVars, page, reply, sheet, http, prompt >>

QueryInit == PageInit

QueryNext ==
    \/ execQuery
    \/ \E resJson \in ApiResponses(Len(ads.pages) + 1) : ApiResponse(resJson)

QuerySpec == QueryInit /\ [][QueryNext]_vars

(* ---------------------------- _getPrompt -------------------------------- *)
\* app.ts Predictor._getPrompt.  A text is a sequence of segments: literal
\* text of a given length, the placeholder {KEYWORDS}, the placeholder of an
\* argument ({CUSTOMER_NAME}), or a list of keyword lines put in place of
\* {KEYWORDS}.  A keyword is given by its length; the keywords string is the
\* sequence of its lines.
maxRequestLength == 8 * 1024

Text(len) == [kind |-> "text", len |-> len, lines |-> << >>]

KeywordsPlaceholder == [kind |-> "{KEYWORDS}", len |-> 10, lines |-> << >>]

ArgPlaceholder == [kind |-> "{CUSTOMER_NAME}", len |-> 15, lines |-> << >>]

\* keywords_arr.join('\n').length
RECURSIVE JoinLength(_)
JoinLength(lines) ==
    IF lines = << >> THEN 0
    ELSE IF Len(lines) = 1 THEN lines[1]
    ELSE lines[1] + 1 + JoinLength(Tail(lines))

KeywordsText(lines) ==
    [kind |-> "keywords", len |-> JoinLength(lines), lines |-> lines]

\* prompt.length
RECURSIVE Length(_)
Length(text) == IF text = << >> THEN 0 ELSE Head(text).len + Length(Tail(text))

\* prompt.replaceAll('{' + name + '}', args[name]) for every name of args
ReplaceAllArgs(text, argLen) ==
    [n \in 1..Len(text) |->
        IF text[n].kind = "{CUSTOMER_NAME}" THEN Text(argLen) ELSE text[n]]

\* prompt.replace('{KEYWORDS}', keywords): the first occurrence only, and
\* the text unchanged when there is none
ReplaceKeywords(text, lines) ==
    LET at == { n \in 1..Len(text) : text[n].kind = "{KEYWORDS}" }
    IN IF at = {} THEN text
       ELSE [text EXCEPT ![SetMin(at)] = KeywordsText(lines)]

\* the do-while loop (lines 1034-1048): prompt is carried from one iteration
\* to the next
RECURSIVE ShortenLoop(_, _, _, _, _, _)
ShortenLoop(prompt0, keywords, keywords_arr, itemNum0, argLen, iterations) ==
    LET replaced == ReplaceKeywords(ReplaceAllArgs(prompt0, argLen), keywords)
        itemNum == itemNum0 - 1
    IN IF itemNum = 0
       THEN [out |-> replaced, iterations |-> iterations + 1]
       ELSE IF Length(replaced) >= maxRequestLength
       THEN ShortenLoop(replaced, SubSeq(keywords_arr, 1, itemNum - 1),
                        keywords_arr, itemNum, argLen, iterations + 1)
       ELSE [out |-> replaced, iterations |-> iterations + 1]

\* _getPrompt(promptTemplate, keywords, args); keywords << >> stands for
\* undefined or the empty string (lines 1018-1029)
GetPrompt(promptTemplate, keywords, argLen) ==
    IF keywords = << >>
    THEN [out |-> ReplaceAllArgs(promptTemplate, argLen), iterations |-> 0]
    ELSE ShortenLoop(promptTemplate, keywords, keywords, Len(keywords),
                     argLen, 0)

\* the templates: literal text, the customer name, and {KEYWORDS} as many
\* times as the template's author wrote it (once in the built-in templates)
Templates ==
    { << Text(len), ArgPlaceholder >> \o [n \in 1..p |-> KeywordsPlaceholder]
          \o << Text(1) >> :
        len \in {1, maxRequestLength - 6, maxRequestLength},
        p \in 0..MaxPlaceholders }

KeywordLists == UNION { [1..n -> 1..MaxKeywordLen] : n \in 0..MaxKeywords }

\* one call is followed: its arguments and what it returns
_getPrompt(promptTemplate, keywords, argLen) ==
    /\ prompt = NoPrompt
    /\ prompt' = [template |-> promptTemplate, keywords |-> keywords,
                  argLen |-> argLen,
                  out |-> GetPrompt(promptTemplate, keywords, argLen).out,
                  iterations |->
                      GetPrompt(promptTemplate, keywords, argLen).iterations]
    /\ UNCHANGED << runnerVars, page, reply, sheet, http, ads >>

PromptInit == PageInit

PromptNext ==
    \E promptTemplate \in Templates, keywords \in KeywordLists, argLen \in 1..2 :
        _getPrompt(promptTemplate, keywords, argLen)

PromptSpec == PromptInit /\ [][PromptNext]_vars

(* ---------------------------- properties -------------------------------- *)
IsTerminal(job) == job.status \in TerminalStatuses

RunStep == runCount' = runCount + 1

\* some resolve function is invoked in this step
CompletionInvoked == \E r \in Runs : completionCalls'[r] > completionCalls[r]

\* C1: the number of RUNNING jobs in the store never exceeds maxRunningJobs,
\* neither between handlers nor at any invocation of the progress callback.
C1_RunningAtMostMax ==
    /\ CountStatus(runnerJobs, JOB_STATUS_RUNNING) <= maxRunningJobs
    /\ \A n \in 1..Len(progressSeen) : progressSeen[n].running <= maxRunningJobs

\* the limit is reached with a job still waiting, and the progress callback saw it
C1_Witness ==
    /\ CountStatus(runnerJobs, JOB_STATUS_RUNNING) = maxRunningJobs
    /\ CountStatus(runnerJobs, JOB_STATUS_PENDING) > 0
    /\ \E n \in 1..Len(progressSeen) : progressSeen[n].running = maxRunningJobs

\* C2: whenever the completion callback (the resolve of run()'s promise) is
\* invoked, every job of the store is COMPLETE, ERROR or CANCELLED.
C2_ResolvedOnlyWhenTerminal ==
    [][CompletionInvoked =>
         \A k \in DOMAIN runnerJobs' : IsTerminal(runnerJobs'[k])]_vars

\* a run of several jobs was resolved by the settlement of its last call
C2_Witness ==
    /\ lastOp = "success"
    /\ completionCallback # NoCallback
    /\ promise[completionCallback] = "resolved"
    /\ Len(resolvedWith[completionCallback]) >= 3

\* a job of the store is PENDING or RUNNING
Outstanding ==
    \E k \in DOMAIN runnerJobs :
        runnerJobs[k].status \in {JOB_STATUS_PENDING, JOB_STATUS_RUNNING}

\* the remote calls that settle in this step
Settled == inflight \ inflight'

SettledId(call) == JSONparse(call.payload).id

\* the status the outcome of the settling call asks for
OutcomeStatus == IF lastOp' = "failure" THEN JOB_STATUS_ERROR
                 ELSE JOB_STATUS_COMPLETE

\* C3: once every dispatched remote call has settled, with success or with
\* failure, the promise of run() is resolved (stated for one run whose store
\* entries are keyed by their ids).
C3_ResolvedOnceAllSettled ==
    (/\ runCount = 1
     /\ inflight = {}
     /\ \A k \in DOMAIN runnerJobs : runnerJobs[k].id = k)
        => promise[1] = "resolved"

\* C4: run() called while a job of the earlier run is PENDING or RUNNING
\* rejects the new promise and leaves store, command and callbacks unchanged.
C4_SecondRunRejected ==
    [][(RunStep /\ Outstanding) =>
         /\ promise'[runCount'] = "rejected"
         /\ UNCHANGED << runnerJobs, command, progressCallback,
                         completionCallback >>]_vars

\* C5: the job of a remote call that rejects gets status ERROR, the job of a
\* call that succeeds gets COMPLETE, no settlement rejects the promise, and
\* the settlement of the last call in flight resolves it.
C5_FailureIsolated ==
    [][\A call \in Settled :
         /\ SettledId(call) \in DOMAIN runnerJobs'
         /\ runnerJobs'[SettledId(call)].status = OutcomeStatus
         /\ \A r \in Runs : promise'[r] # "rejected"
         /\ inflight' = {} => promise'[completionCallback'] = "resolved"]_vars

\* C6: within a run, a job whose status is COMPLETE, ERROR or CANCELLED keeps
\* that status in every later step.
C6_TerminalIsFinal ==
    [][(runCount' = runCount) =>
         \A k \in DOMAIN runnerJobs :
            IsTerminal(runnerJobs[k]) =>
               /\ k \in DOMAIN runnerJobs'
               /\ runnerJobs'[k].status = runnerJobs[k].status]_vars

\* C7: stop() sets every PENDING job CANCELLED at once, and an admitted job
\* that stop() marked ends COMPLETE or ERROR, by its own outcome, when its
\* remote call settles.
C7_AdmittedSettleByOutcome ==
    [][/\ lastOp' = "stop" =>
            \A k \in DOMAIN runnerJobs :
               runnerJobs[k].status = JOB_STATUS_PENDING =>
                  runnerJobs'[k].status = JOB_STATUS_CALCELLED
       /\ \A call \in Settled :
            (/\ SettledId(call) \in DOMAIN runnerJobs
             /\ runnerJobs[SettledId(call)].status = JOB_STATUS_CALCELLED)
               => runnerJobs'[SettledId(call)].status = OutcomeStatus]_vars

\* C8: stop() sets exactly the PENDING and RUNNING jobs CANCELLED and leaves
\* every other job, the command and both callbacks as they were.
C8_StopFrame ==
    [][lastOp' = "stop" =>
         /\ DOMAIN runnerJobs' = DOMAIN runnerJobs
         /\ \A k \in DOMAIN runnerJobs :
              runnerJobs'[k] =
                 IF runnerJobs[k].status \in {JOB_STATUS_PENDING, JOB_STATUS_RUNNING}
                 THEN [runnerJobs[k] EXCEPT !.status = JOB_STATUS_CALCELLED]
                 ELSE runnerJobs[k]
         /\ UNCHANGED << command, progressCallback, completionCallback >>]_vars

\* stop() has just cancelled a waiting job and a job in flight, next to a
\* COMPLETE one
C8_Witness ==
    /\ lastOp = "stop"
    /\ inflight # {}
    /\ \E k \in DOMAIN runnerJobs : runnerJobs[k].status = JOB_STATUS_COMPLETE
    /\ Cardinality({k \in DOMAIN runnerJobs :
                      runnerJobs[k].status = JOB_STATUS_CALCELLED}) >= 2

\* the promise of the current run is resolved
CurrentRunResolved ==
    completionCallback # NoCallback /\ promise[completionCallback] = "resolved"

\* C9: a stop() that follows a stop(), and a stop() after the run has
\* resolved, change nothing of the Runner.
C9_StopIdempotent ==
    [][(lastOp' = "stop" /\ (lastOp = "stop" \/ CurrentRunResolved)) =>
         UNCHANGED << runnerJobs, command, progressCallback, completionCallback,
                      runnerStatus, maxRunningJobs, inflight, promise,
                      resolvedWith, completionCalls >>]_vars

\* stop() has acted on several jobs, so that a second stop() meets its result
C9_Witness ==
    /\ lastOp = "stop"
    /\ ~ CurrentRunResolved
    /\ Cardinality({k \in DOMAIN runnerJobs :
                      runnerJobs[k].status = JOB_STATUS_CALCELLED}) >= 3

\* C10: a job is never RUNNING while a job before it in the list passed to
\* run() is still PENDING.
C10_AdmissionFifo ==
    \A j, k \in DOMAIN runnerJobs :
        (j < k /\ runnerJobs[j].status = JOB_STATUS_PENDING)
            => runnerJobs[k].status # JOB_STATUS_RUNNING

\* a settlement freed a slot and the next job of the list took it while a
\* later one still waits
C10_Witness ==
    /\ lastOp = "success"
    /\ \E j, k, l \in DOMAIN runnerJobs :
        /\ j < k /\ k < l
        /\ runnerJobs[j].status = JOB_STATUS_COMPLETE
        /\ runnerJobs[k].status = JOB_STATUS_RUNNING
        /\ runnerJobs[l].status = JOB_STATUS_PENDING
        /\ \E n \in 1..Len(progressSeen) :
              progressSeen[n].idx = k /\ progressSeen[n].status = JOB_STATUS_RUNNING


\* C11: every status transition of a job (to RUNNING on admission, COMPLETE
\* on success, ERROR on failure, CANCELLED by stop()) is reported by an
\* invocation of the progress callback with the job in its new status.
C11_ProgressOnEveryTransition ==
    [][/\ \A k \in DOMAIN runnerJobs' :
            (/\ runnerJobs'[k].status # JOB_STATUS_PENDING
             /\ \/ RunStep
                \/ k \notin DOMAIN runnerJobs
                \/ runnerJobs[k].status # runnerJobs'[k].status)
               => \E n \in 1..Len(progressSeen') :
                     /\ progressSeen'[n].id = runnerJobs'[k].id
                     /\ progressSeen'[n].status = runnerJobs'[k].status
       /\ \A call \in Settled :
            lastOp' = "failure"
               => \E n \in 1..Len(progressSeen') :
                     /\ progressSeen'[n].id = SettledId(call)
                     /\ progressSeen'[n].status = JOB_STATUS_ERROR]_vars


\* the records of a resolved array are one per descriptor of a list of n
OnePerDescriptor(records, r, n) ==
    /\ Len(records) = n
    /\ \A i \in 0..(n - 1) :
          \E m \in 1..Len(records) : records[m].run = r /\ records[m].idx = i
    /\ \A m \in 1..Len(records) : IsTerminal(records[m])

\* C12: the array run() resolves with holds exactly one record per submitted
\* descriptor, each terminal, whoever numbered the descriptors (stated for
\* the first run() of a Runner, whose list has jobsSubmitted descriptors).
C12_OneRecordPerDescriptor ==
    (runCount = 1 /\ promise[1] = "resolved")
        => OnePerDescriptor(resolvedWith[1], 1, jobsSubmitted)


\* C13: every entry of the store is keyed by the id of the job it holds, and
\* the ids of the store are pairwise distinct.
C13_KeyedById ==
    /\ \A k \in DOMAIN runnerJobs : runnerJobs[k].id = k
    /\ \A j, k \in DOMAIN runnerJobs :
          runnerJobs[j].id = runnerJobs[k].id => j = k


SettledRun(call) == JSONparse(call.payload).run

\* C14: the settlement of a remote call dispatched by an earlier run() changes
\* no job of the store of the run started since, and does not resolve the
\* promise of that run.
C14_EarlierRunIsolated ==
    [][\A call \in Settled :
         SettledRun(call) < completionCallback
            => /\ runnerJobs' = runnerJobs
               /\ promise'[completionCallback] = promise[completionCallback]]_vars


\* C18: a promise of run() becomes rejected only in a run() step taken while
\* a job of the store is PENDING or RUNNING; no settlement of a remote call,
\* failed or not, and no stop() rejects a promise.
C18_RejectedOnlyWhenBusy ==
    [][\A r \in Runs :
         (promise'[r] = "rejected" /\ promise[r] # "rejected")
            => (RunStep /\ r = runCount' /\ Outstanding)]_vars

\* remote calls have failed and the promise of the run is still not rejected
C18_Witness ==
    /\ lastOp = "failure"
    /\ runCount >= 1
    /\ inflight = {}
    /\ Cardinality(DOMAIN runnerJobs) >= 2
    /\ \A r \in Runs : promise[r] # "rejected"


\* C19: a stop() step resolves no promise; the next admission sweep after it
\* (run by the next success report) that finds no job RUNNING resolves the
\* promise of the run, with the array of all jobs, CANCELLED ones included.
C19_StopThenSweepResolves ==
    [][/\ lastOp' = "stop" =>
            UNCHANGED << promise, resolvedWith, completionCalls >>
       /\ (/\ lastOp' = "success"
           /\ \A k \in DOMAIN runnerJobs' :
                 runnerJobs'[k].status # JOB_STATUS_RUNNING)
             => /\ promise'[completionCallback] = "resolved"
                /\ promise[completionCallback] # "resolved" =>
                      resolvedWith'[completionCallback] =
                          ObjectValues(runnerJobs')]_vars

\* after stop() a success report resolved the run with CANCELLED entries
C19_Witness ==
    /\ lastOp = "success"
    /\ CurrentRunResolved
    /\ completionCalls[completionCallback] = 1
    /\ \E m \in 1..Len(resolvedWith[completionCallback]) :
          resolvedWith[completionCallback][m].status = JOB_STATUS_CALCELLED
    /\ \E m \in 1..Len(resolvedWith[completionCallback]) :
          resolvedWith[completionCallback][m].status = JOB_STATUS_COMPLETE


\* C20: for every job text dispatched to generate_rsa_ui, the text it returns
\* and the text it throws both carry the id of the input job, and the thrown
\* text carries an error field.
C20_ReplyEchoesId ==
    \A call \in inflight :
        LET sent     == JSONparse(call.payload)
            returned == JSONparse(generate_rsa_ui(call.payload))
        IN /\ "id" \in DOMAIN returned
           /\ returned.id = sent.id
           /\ \A error \in ServerErrors :
                 LET thrown == JSONparse(generate_rsa_ui_throw(call.payload, error))
                 IN /\ "id" \in DOMAIN thrown
                    /\ thrown.id = sent.id
                    /\ "error" \in DOMAIN thrown

\* two jobs numbered by the caller are in flight and one reply was stored
C20_Witness ==
    /\ Cardinality(inflight) >= 2
    /\ \E call \in inflight : JSONparse(call.payload).id # JSONparse(call.payload).idx
    /\ \E k \in DOMAIN runnerJobs :
          /\ runnerJobs[k].status = JOB_STATUS_COMPLETE
          /\ "ended" \in DOMAIN runnerJobs[k]


\* the descriptors of one call of startExecution cover its rows in order
CoversInOrder(b) ==
    LET rowStart  == b.args[1]
        rowEnd    == b.args[2]
        batchSize == b.args[3]
        size      == rowEnd - rowStart + 1
        n         == Len(b.jobs)
    IN /\ n * batchSize >= size
       /\ (n - 1) * batchSize < size
       /\ b.jobs[1].startRow = rowStart
       /\ b.jobs[n].endRow = rowEnd
       /\ \A i \in 1..n :
            /\ b.jobs[i].startRow <= b.jobs[i].endRow
            /\ b.jobs[i].endRow =
                 IF rowEnd < b.jobs[i].startRow + batchSize - 1
                 THEN rowEnd ELSE b.jobs[i].startRow + batchSize - 1
            /\ i < n => b.jobs[i].endRow + 1 = b.jobs[i + 1].startRow

\* C15: for rowEnd >= rowStart and batchSize >= 1, startExecution builds
\* ceil((rowEnd-rowStart+1)/batchSize) descriptors whose ranges are non-empty,
\* contiguous, non-overlapping, increasing, cover exactly [rowStart, rowEnd],
\* and end at min(rowEnd, startRow + batchSize - 1).
C15_PartitionCoversRows ==
    \A b \in page.built :
        (b.args[2] >= b.args[1] /\ b.args[3] >= 1) => CoversInOrder(b)

\* several descriptors were built and the last range is cut short by rowEnd
C15_Witness ==
    \E b \in page.built :
        /\ b.args[2] >= b.args[1]
        /\ Len(b.jobs) >= 2
        /\ b.jobs[Len(b.jobs)].endRow
             < b.jobs[Len(b.jobs)].startRow + b.args[3] - 1

SmallBatchClick ==
    /\ page'.clicks = page.clicks + 1
    /\ page'.batchIn # << >>
    /\ page'.batchIn[1] < 1

\* C17: a batch size below 1 is rejected before scheduling: the click creates
\* no Runner, builds no descriptor and issues no remote call.
C17_SmallBatchRejected ==
    [][SmallBatchClick =>
          /\ page'.runners = page.runners
          /\ page'.built = page.built
          /\ page'.sheetCalls = page.sheetCalls
          /\ inflight' = inflight
          /\ runnerJobs' = runnerJobs]_vars

\* a click with a batch size below 1 was answered by the alert, with no Runner
C17_Witness ==
    /\ page.clicks >= 1
    /\ page.batchIn # << >>
    /\ page.batchIn[1] < 1
    /\ page.alert = "Batch size should > 1"
    /\ page.runners = 0


\* run() was accepted in this step
RunAccepted == RunStep /\ promise'[runCount'] # "rejected"

\* the remote calls dispatched in this step
Dispatched == inflight' \ inflight

Min(a, b) == IF a < b THEN a ELSE b

\* C22: run() with n jobs admits and dispatches min(n, maxRunningJobs) jobs
\* in the run() step itself, before any remote call of the run settles.
C22_RunAdmitsAtOnce ==
    [][RunAccepted =>
         LET n == Cardinality(DOMAIN runnerJobs')
         IN /\ n = jobsSubmitted' - jobsSubmitted
            /\ CountStatus(runnerJobs', JOB_STATUS_RUNNING) = Min(n, maxRunningJobs)
            /\ Cardinality(Dispatched) = Min(n, maxRunningJobs)
            /\ \A call \in Dispatched :
                  /\ JSONparse(call.payload).run = runCount'
                  /\ JSONparse(call.payload).idx < Min(n, maxRunningJobs)]_vars

\* run() of more jobs than the limit has just dispatched two of them
C22_Witness ==
    /\ lastOp = "run"
    /\ maxRunningJobs = 2
    /\ Cardinality(DOMAIN runnerJobs) >= 3
    /\ Cardinality(inflight) = 2
    /\ CountStatus(runnerJobs, JOB_STATUS_PENDING) >= 1

C24_StatusRunningWhileActive ==
    (runCount >= 1 /\ Outstanding) => runnerStatus = RUNNER_STATUS_RUNNING


\* the job (run, list position) a remote call was dispatched for
CallJob(call) ==
    << JSONparse(call.payload).run, JSONparse(call.payload).idx >>

\* C25: a job is dispatched only out of PENDING, a status no job returns to
\* within a run, so each job is dispatched at most once and never after it
\* ended; and the failure of one call changes no other job and drops no
\* other call.
C25_DispatchedAtMostOnce ==
    [][/\ ~ RunStep =>
            /\ \A k \in DOMAIN runnerJobs' :
                  runnerJobs'[k].status \in {JOB_STATUS_PENDING, JOB_STATUS_RUNNING}
                     => /\ k \in DOMAIN runnerJobs
                        /\ \/ runnerJobs[k] = runnerJobs'[k]
                           \/ /\ runnerJobs[k].status = JOB_STATUS_PENDING
                              /\ runnerJobs'[k].status = JOB_STATUS_RUNNING
            /\ \A call \in Dispatched :
                  \E k \in DOMAIN runnerJobs :
                     /\ runnerJobs[k].status = JOB_STATUS_PENDING
                     /\ << runnerJobs[k].run, runnerJobs[k].idx >> = CallJob(call)
       /\ lastOp' = "failure" =>
            /\ (inflight \ Settled) \subseteq inflight'
            /\ \A k \in DOMAIN runnerJobs :
                  (\A call \in Settled : runnerJobs[k].id # SettledId(call))
                     => /\ k \in DOMAIN runnerJobs'
                        /\ runnerJobs'[k].status \in
                              {runnerJobs[k].status, JOB_STATUS_RUNNING}]_vars

\* a call has failed while another call of the run is in flight and a job waits
C25_Witness ==
    /\ lastOp = "failure"
    /\ inflight # {}
    /\ CountStatus(runnerJobs, JOB_STATUS_RUNNING) >= 2
    /\ CountStatus(runnerJobs, JOB_STATUS_PENDING) >= 1

\* C26: a job's RUNNING callback is delivered in the step that dispatches it,
\* its COMPLETE or ERROR callback only in a later step that settles its call,
\* and in a settlement step the callback of the settled job comes first, the
\* RUNNING callbacks of the jobs admitted by the sweep after it.
C26_ProgressOrdered ==
    [][/\ \A call \in Dispatched :
            \E n \in 1..Len(progressSeen') :
               /\ progressSeen'[n].status = JOB_STATUS_RUNNING
               /\ << progressSeen'[n].run, progressSeen'[n].idx >> = CallJob(call)
       /\ \A n \in 1..Len(progressSeen') :
            progressSeen'[n].status \in {JOB_STATUS_COMPLETE, JOB_STATUS_ERROR}
               => /\ n = 1
                  /\ \E call \in Settled :
                        << progressSeen'[n].run, progressSeen'[n].idx >> = CallJob(call)
       /\ lastOp' = "success" =>
            /\ Len(progressSeen') >= 1
            /\ progressSeen'[1].status = JOB_STATUS_COMPLETE]_vars

\* a success report was followed by the RUNNING callback of the next job
C26_Witness ==
    /\ lastOp = "success"
    /\ Len(progressSeen) >= 2
    /\ progressSeen[1].status = JOB_STATUS_COMPLETE
    /\ progressSeen[2].status = JOB_STATUS_RUNNING
    /\ progressSeen[2].idx > progressSeen[1].idx

\* C27: the completion callback of a run is invoked at most once.
C27_CompletionAtMostOnce ==
    \A r \in Runs : completionCalls[r] <= 1

\* C28: the remote calls dispatched and not yet settled are at most
\* maxRunningJobs.
C28_InFlightAtMostMax ==
    Cardinality(inflight) <= maxRunningJobs


EmptyRunStarted ==
    /\ page'.runners = page.runners + 1
    /\ DOMAIN runnerJobs' = {}

\* C30: run() with an empty list, which is what startExecution passes when
\* rowEnd < rowStart, resolves its promise in the same step with an empty
\* array, dispatches no remote call and invokes no progress callback.
C30_EmptyRunResolvesAtOnce ==
    [][/\ \A b \in page'.built \ page.built :
            b.args[2] < b.args[1] => (b.jobs = << >> /\ EmptyRunStarted)
       /\ EmptyRunStarted =>
            /\ promise'[1] = "resolved"
            /\ resolvedWith'[1] = << >>
            /\ completionCalls'[1] = 1
            /\ inflight' = inflight
            /\ progressSeen' = << >>]_vars

\* the page started a run for a range that ends before it starts
C30_Witness ==
    /\ lastOp = "run"
    /\ page.runners >= 1
    /\ DOMAIN runnerJobs = {}
    /\ promise[1] = "resolved"
    /\ \E b \in page.built : b.args[2] < b.args[1] /\ b.jobs = << >>


\* the reply is a JSON array of strings, bare or in a fence labelled JSON
ArrayReply ==
    reply.wrapper \in {"bare", "fence json", "fence JSON", "fence blank JSON"}

\* C21: normalizing a reply that is a JSON array of strings, bare or wrapped
\* in a code fence labelled JSON, yields exactly the elements of the array in
\* their order.
C21_ArrayElementsKept ==
    ArrayReply =>
        ReplyLines(reply.out) = [n \in 1..Len(reply.array) |-> Content(reply.array[n])]


\* a run is being prepared or is in progress: the sheet state is being
\* fetched, or the promise of the Runner's run() is still pending
RunInProgress ==
    \/ page.sheetCalls # {}
    \/ page.runners > 0 /\ promise[1] = "pending"

\* C31: the Run button and the inputs are disabled only while a run is in
\* progress: when onRun returns without starting one (batch size below 1,
\* max running jobs below 1, no data rows in the sheet) they are enabled.
C31_RunEnabledWhenIdle ==
    ~ page.enabled => RunInProgress


\* the adgroups generate_rsa read in its last call and did not skip
Processed ==
    { n \in 1..Len(Values(sheet.rows, sheet.rowToProcess)) :
        ~ Skipped(Values(sheet.rows, sheet.rowToProcess)[n]) }

\* C32: generate_rsa writes the headlines and descriptions generated for an
\* adgroup into the sheet row that adgroup was read from, for every adgroup
\* of the range that is not skipped, also when earlier adgroups were skipped.
C32_WrittenInOwnRow ==
    sheet.rows # << >> =>
        /\ \A i \in 1..Len(sheet.writes) : sheet.writes[i].row = sheet.writes[i].of
        /\ \A n \in Processed :
              \E i \in 1..Len(sheet.writes) :
                  /\ sheet.writes[i].col = "headlines"
                  /\ sheet.writes[i].of = Values(sheet.rows, sheet.rowToProcess)[n].row
                  /\ sheet.writes[i].row = sheet.writes[i].of


\* every response of the current fetchJson call had status 502 or 504
OnlyGateway == http.requests > 0 /\ http.requests = http.gateway

\* C33: when every response has status 502 or 504, fetchJson issues exactly
\* Config.network.maxRetryCount requests and then throws 'Max retry attempt
\* count exceeded'; it never returns a value.
C33_GatewayRetriesExhaust ==
    OnlyGateway =>
        /\ http.requests <= maxRetryCount
        /\ http.phase # "returned"
        /\ (http.phase = "thrown") = (http.requests = maxRetryCount)
        /\ http.phase = "thrown" => http.error = "Max retry attempt count exceeded"

C33_Witness ==
    /\ OnlyGateway
    /\ http.requests = maxRetryCount
    /\ http.phase = "thrown"

\* C34: within one top-level fetchJson call the number of requests answered
\* with 502/504 never exceeds Config.network.maxRetryCount, whatever 429
\* responses are interleaved.
C34_GatewayAnswersBounded ==
    http.gateway <= maxRetryCount

\* C35: a response with status 503 is handled like 502 and 504: fetchJson
\* waits Config.network.retryDelay and retries instead of throwing on the
\* first 503.
C35_ServiceUnavailableRetried ==
    (http.code = 503 /\ http.requests = 1) =>
        /\ http.phase = "calling"
        /\ http.slept = retryDelay


\* the rows of all pages received, in request order
RECURSIVE AllRows(_)
AllRows(pages) ==
    IF pages = << >> THEN << >>
    ELSE LET data == Data(Head(pages))
         IN (IF data.results = << >> THEN << >> ELSE data.results[1])
            \o AllRows(Tail(pages))

LastData == Data(ads.pages[Len(ads.pages)])

\* C36: execQuery requests the next page exactly when the previous response
\* carried a nextPageToken, stops at the first response without one and
\* returns the results of all pages concatenated in request order (an empty
\* list when no page had results); a response carrying an error makes it
\* throw without returning partial results.
C36_PagesConcatenated ==
    /\ \A i \in 1..(Len(ads.pages) - 1) :
          Data(ads.pages[i]).token /\ ~ Data(ads.pages[i]).error
    /\ Len(ads.pages) > 0 =>
          /\ ads.phase = "paging" <=> (LastData.token /\ ~ LastData.error)
          /\ ads.phase = "returned" <=> (~ LastData.token /\ ~ LastData.error)
          /\ ads.phase = "thrown" <=> LastData.error
    /\ ads.phase = "returned" => ads.value = AllRows(ads.pages)
    /\ ads.phase # "returned" => ads.value = << >>

\* three pages were received, the first two with rows and a token, and the
\* call returned
C36_Witness ==
    /\ ads.phase = "returned"
    /\ Len(ads.pages) = 3
    /\ Len(AllRows(SubSeq(ads.pages, 1, 1))) > 0
    /\ Len(AllRows(SubSeq(ads.pages, 2, 2))) > 0
    /\ Len(ads.value) > 2


\* the prompt built from the template of the last call and the given lines
BuiltFrom(lines) ==
    ReplaceKeywords(ReplaceAllArgs(prompt.template, prompt.argLen), lines)

\* the last call had at least two keyword lines and a template with
\* {KEYWORDS}, and the prompt built from all keywords reaches the limit
TooLong ==
    /\ Len(prompt.keywords) >= 2
    /\ \E n \in 1..Len(prompt.template) : prompt.template[n].kind = "{KEYWORDS}"
    /\ Length(BuiltFrom(prompt.keywords)) >= maxRequestLength

\* C37: in _getPrompt with at least two keyword lines, when the prompt built
\* from all keywords has length >= Config.vertexAi.maxRequestLength, the
\* returned prompt is built from a strict prefix of the keyword list and is
\* shorter than the prompt built from all keywords, and the loop stops after
\* at most as many iterations as there are keyword lines.
C37_PromptShortened ==
    TooLong =>
        /\ \E k \in 0..(Len(prompt.keywords) - 1) :
              prompt.out = BuiltFrom(SubSeq(prompt.keywords, 1, k))
        /\ Length(prompt.out) < Length(BuiltFrom(prompt.keywords))
        /\ prompt.iterations <= Len(prompt.keywords)

====
